---- MODULE Spec2Model ----
(***************************************************************************)
(* Model of jupyter-myst-build-proxy: the static server's request          *)
(* dispatcher (MystHTTPRequestHandler.do_GET), its path resolver           *)
(* (_parse_path), the background build worker (_start_build.build) and     *)
(* the post-build hook (_postbuild), and the response rewriter of the      *)
(* server extension (rewrite_myst_response, with setup_myst._get_cmd).     *)
(*                                                                         *)
(* Representation.  A path is a sequence of segments.  An output line of   *)
(* the builder is a positive integer (the k-th non-empty line is k); the   *)
(* empty string is 0.  build_status is a function whose DOMAIN is the set  *)
(* of keys of the Python dict, and every value is a record whose DOMAIN is *)
(* the set of keys of the Python value dict, so dict.get(key, default) and *)
(* "key in dict" are modelled as they are computed.                        *)
(***************************************************************************)
EXTENDS Integers, Sequences, FiniteSets, TLC

\* ------------------------------------------------------------------ bounds
MaxRequests == 3      \* requests the server accepts in one behaviour
MaxLines == 2         \* non-empty output lines of one builder run (Spec)
MaxLongLines == 21    \* the same under SpecLong (exceeds the error tail)
LongRequests == 2     \* requests the server accepts under SpecLong
MaxPathLen == 3       \* segments of a request path under SpecResolve
MaxReqLen == 1        \* segments of a request path under Spec and SpecLong
MaxBodyLen == 2       \* pieces of a response body under SpecRewrite
MaxUriLen == 2        \* segments of a request path below the mount point
MaxRewrites == 2      \* applications of the rewriter to one response
TwoRequests == 2      \* requests the server accepts under SpecTwo
TwoLines == 1         \* non-empty output lines of one builder run (SpecTwo)
RaceRequests == 4     \* requests the server accepts under SpecRace
RaceLines == 1        \* non-empty output lines of one builder run (SpecRace)
FairRequests == 3     \* requests the server accepts under SpecFair
FairLines == 1        \* non-empty output lines of one builder run (SpecFair)

\* ------------------------------------------------------- program constants
ErrorTail == 20       \* output_lines[-20:]

ContentRoot == <<"home">>                 \* default_directory (absolute)
ExcText == <<-1>>                         \* str(e) of an exception
UnknownError == <<-2>>                    \* the default "Unknown error"
PathInfo == "myst-build"                  \* PATH_INFO without its "/"
None == <<"None">>                        \* _PROXY_BASE_URL before _get_cmd

\* ------------------------------------------------------------ path helpers
Segs == {"p", "q"}
RawSegs == {"p", "q", "..", "%2e%2e"}

RECURSIVE SeqsUpTo(_, _)
SeqsUpTo(S, n) ==
  IF n = 0 THEN {<<>>}
  ELSE LET shorter == SeqsUpTo(S, n - 1)
       IN  shorter \cup {Append(s, x) : s \in {t \in shorter : Len(t) = n - 1}, x \in S}

Prefix(s, i) == SubSeq(s, 1, i)
Suffix(s, i) == SubSeq(s, i + 1, Len(s))

\* urllib.parse.unquote on one raw segment
UnquoteSeg(seg) == IF seg = "%2e%2e" THEN ".." ELSE seg

Unquote(raw) == [i \in 1..Len(raw) |-> UnquoteSeg(raw[i])]

\* os.path.abspath of an absolute path: "." dropped, ".." pops, "/.." = "/"
RECURSIVE Abspath(_)
Abspath(path) ==
  IF path = <<>> THEN <<>>
  ELSE LET head == Abspath(Prefix(path, Len(path) - 1))
           last == path[Len(path)]
       IN  IF last = "." THEN head
           ELSE IF last = ".." THEN (IF head = <<>> THEN <<>> ELSE Prefix(head, Len(head) - 1))
           ELSE Append(head, last)

\* length of the longest common prefix of two paths
RECURSIVE CommonLen(_, _)
CommonLen(a, b) ==
  IF a = <<>> \/ b = <<>> THEN 0
  ELSE IF a[1] # b[1] THEN 0
  ELSE 1 + CommonLen(Tail(a), Tail(b))

\* os.path.relpath(path, ContentRoot)
RelPath(path) ==
  LET c == CommonLen(path, ContentRoot)
  IN  IF path = ContentRoot THEN <<".">>
      ELSE [i \in 1..(Len(ContentRoot) - c) |-> ".."] \o Suffix(path, c)

\* ---------------------------------------------------------------- resolver
\* (variant of FindProject: the shortest marker-bearing prefix wins)
RECURSIVE FindProjectShortest(_, _, _)
FindProjectShortest(parts, i, markers) ==
  IF i = 0 THEN 0
  ELSE LET shorter == FindProjectShortest(parts, i - 1, markers)
       IN  IF shorter > 0 THEN shorter
           ELSE IF Abspath(ContentRoot \o Prefix(parts, i)) \in markers THEN i
           ELSE 0

\* the loop "for i in range(len(parts), 0, -1)": the first i, from the
\* longest prefix down, whose directory holds the marker file; 0 if none
RECURSIVE FindProject(_, _, _)
FindProject(parts, i, markers) ==
  IF i = 0 THEN 0
  ELSE IF Abspath(ContentRoot \o Prefix(parts, i)) \in markers THEN i
  ELSE FindProject(parts, i - 1, markers)

\* (variant of ParsePath: without a marker file the first segment names the
\* project and the rest is the in-project path)
ParsePathFirstSegment(raw, slash, markers) ==
  LET parts == Unquote(raw)
      i == FindProject(parts, Len(parts), markers)
      k == IF i > 0 THEN i ELSE 1
  IN  IF parts = <<>> THEN [myst_dir |-> ContentRoot, segs |-> <<>>, slash |-> FALSE]
      ELSE [myst_dir |-> Abspath(ContentRoot \o Prefix(parts, k)),
            segs |-> Suffix(parts, k),
            slash |-> slash /\ Suffix(parts, k) # <<>>]

\* _parse_path: raw is the request path split at "/" without its empty
\* pieces, slash tells whether the raw path ends in "/".  The file path
\* "/" + "/".join(segs) [+ "/"] is the pair (segs, slash).
ParsePath(raw, slash, markers) ==
  LET parts == Unquote(raw)
      i == FindProject(parts, Len(parts), markers)
  IN  IF parts = <<>> THEN [myst_dir |-> ContentRoot, segs |-> <<>>, slash |-> FALSE]
      ELSE IF i > 0
      THEN [myst_dir |-> Abspath(ContentRoot \o Prefix(parts, i)),
            segs |-> Suffix(parts, i),
            slash |-> slash /\ Suffix(parts, i) # <<>>]
      ELSE [myst_dir |-> Abspath(ContentRoot \o parts), segs |-> <<>>, slash |-> FALSE]

\* file_path.endswith("/")
EndsWithSlash(file) == file.segs = <<>> \/ file.slash

\* ------------------------------------------------------------------- state
VARIABLES
  marker,            \* the directories that hold a myst.yml
  postbuild_env,     \* JUPYTER_MYST_BUILD_PROXY_POSTBUILD is set
  jupyter_base_url,  \* MystHTTPRequestHandler.jupyter_base_url, as segments
  build_status,      \* the dict build_status
  build_lock,        \* 0 when free, else the worker that holds it
  disk,              \* per project directory, the state of _build/html
  workers,           \* the build threads started so far, with their subprocess
  h,                 \* the request being handled by the (single) server thread
  resp,              \* the response to the last request, once it is sent
  nreq,              \* requests accepted so far
  rebuilds,          \* history: rebuilds honoured per directory
  limits,            \* the bounds of the behaviour
  parsed,            \* the last call of _parse_path made on its own, with its input
  proxy_base_url,    \* _PROXY_BASE_URL of the server extension, as segments
  rw                 \* the response handed to rewrite_myst_response, with its request

vars == <<marker, postbuild_env, jupyter_base_url, build_status, build_lock, disk,
          workers, h, resp, nreq, rebuilds, limits, parsed, proxy_base_url, rw>>

\* the directories a myst.yml may sit in
ProjDirs == {Append(ContentRoot, s) : s \in Segs}
\* ... under Spec and SpecLong
MainProjDirs == {<<"home", "p">>}
\* ... under SpecResolve: nested projects, the content root, directories outside it
MarkerDirs == {<<>>, <<"p">>, ContentRoot, <<"home", "p">>, <<"home", "q">>,
               <<"home", "p", "q">>, <<"home", "p", "q", "p">>}

JupyterBases == {<<"user", "u">>}
\* ... under SpecResolve: a local server ("/") and a JupyterHub user
ResolveBases == {<<>>, <<"user", "u">>}
\* the mount prefixes of SpecRewrite: none, a JupyterHub user, another gateway,
\* a JupyterHub user whose name is the path-info segment
MountBases == {<<>>, <<"user", "u">>, <<"tenant7">>, <<"user", "myst-build">>}

\* _get_cmd: the jupyter_base_url handed to the static server is base_url
\* without a trailing "/myst-build"
GetCmd(base_url) ==
  IF base_url # <<>> /\ base_url[Len(base_url)] = PathInfo
  THEN Prefix(base_url, Len(base_url) - 1)
  ELSE base_url

NoRewrite == [n |-> -1, uri |-> <<>>,
              response |-> [content_type |-> "", body |-> <<>>, content_length |-> 0]]

NoOutput == [out |-> "none", injected |-> FALSE]
BuilderOutputs == {"index", "noindex", "nobody"}

Idle == [pc |-> "idle", myst_dir |-> <<>>, segs |-> <<>>, slash |-> FALSE,
         path_slash |-> FALSE, query |-> ""]
NoResp == [code |-> 0, kind |-> "none", root |-> <<>>, body |-> <<>>,
           loc |-> <<>>, loc_slash |-> FALSE, loc_query |-> ""]
NoParse == [raw |-> <<>>, slash |-> TRUE, myst_dir |-> <<>>, segs |-> <<>>,
            file_slash |-> FALSE, base_url |-> <<>>, done |-> FALSE]

\* dict helpers
Put(f, k, v) == [x \in DOMAIN f \cup {k} |-> IF x = k THEN v ELSE f[x]]
\* (variant of Del: the whole dict cleared)
DelAll(f, k) == <<>>
Del(f, k) == [x \in DOMAIN f \ {k} |-> f[x]]
Get(f, k, default) == IF k \in DOMAIN f THEN f[k] ELSE default

\* build_status.get(myst_dir, {}).get(key, default)
StatusGet(d, key, default) ==
  IF d \in DOMAIN build_status THEN Get(build_status[d], key, default) ELSE default

Status(d) == StatusGet(d, "status", "none")

\* (variant of HasMarker: every directory is taken for a project)
HasMarkerAlways(d) == TRUE

\* os.path.exists(os.path.join(myst_dir, "myst.yml"))
HasMarker(d) == d \in marker

\* the state of <myst_dir>/_build/html
Out(d) == IF d \in DOMAIN disk THEN disk[d] ELSE NoOutput
HtmlDirExists(d) == Out(d).out # "none"
IndexExists(d) == Out(d).out \in {"index", "nobody"}

\* (variant of NeedsBuild: the test of index.html inverted)
NeedsBuildInverted(d) == IndexExists(d)

\* (variant of NeedsBuild: the output directory tested, not its index.html)
NeedsBuildHtmlDir(d) == ~HtmlDirExists(d)

\* _needs_build
NeedsBuild(d) == ~IndexExists(d)

\* (variant of BaseUrl: the content root treated like every other directory)
BaseUrlRelative(d) == jupyter_base_url \o <<"myst-build">> \o RelPath(d)

\* base_url of do_GET
BaseUrl(d) ==
  IF d = ContentRoot THEN jupyter_base_url \o <<"myst-build">>
  ELSE jupyter_base_url \o <<"myst-build">> \o RelPath(d)

InitCommon ==
  /\ rw = NoRewrite
  /\ build_status = <<>>
  /\ build_lock = 0
  /\ workers = <<>>
  /\ h = Idle
  /\ resp = NoResp
  /\ nreq = 0
  /\ rebuilds = [d \in ProjDirs |-> 0]
  /\ parsed = NoParse

\* Spec: one project directory, short builder output
Init ==
  /\ InitCommon
  /\ postbuild_env \in BOOLEAN
  /\ proxy_base_url \in {Append(b, PathInfo) : b \in JupyterBases}
  /\ jupyter_base_url = GetCmd(proxy_base_url)
  /\ marker \in SUBSET MainProjDirs
  /\ disk \in [marker -> {NoOutput, [out |-> "index", injected |-> FALSE]}]
  /\ limits = [reqs |-> MaxRequests, lines |-> MaxLines]

\* SpecLong: the same program with builder output longer than the error tail
InitLong ==
  /\ InitCommon
  /\ postbuild_env \in BOOLEAN
  /\ proxy_base_url \in {Append(b, PathInfo) : b \in JupyterBases}
  /\ jupyter_base_url = GetCmd(proxy_base_url)
  /\ marker = MainProjDirs
  /\ disk = [d \in marker |-> NoOutput]
  /\ limits = [reqs |-> LongRequests, lines |-> MaxLongLines]

\* SpecTwo: two project directories side by side, one of them possibly
\* without its marker file, output possibly left by an earlier server, the
\* post-build hook on
InitTwo ==
  /\ InitCommon
  /\ postbuild_env = TRUE
  /\ proxy_base_url \in {Append(b, PathInfo) : b \in JupyterBases}
  /\ jupyter_base_url = GetCmd(proxy_base_url)
  /\ marker \in {ProjDirs, {<<"home", "q">>}}
  /\ disk \in [ProjDirs -> {NoOutput, [out |-> "index", injected |-> FALSE]}]
  /\ disk[<<"home", "q">>] = NoOutput
  /\ limits = [reqs |-> TwoRequests, lines |-> TwoLines]

\* SpecRace: one project directory without output, the post-build hook on,
\* enough requests for a rebuild between two builds and a request after them
InitRace ==
  /\ InitCommon
  /\ postbuild_env = TRUE
  /\ proxy_base_url \in {Append(b, PathInfo) : b \in JupyterBases}
  /\ jupyter_base_url = GetCmd(proxy_base_url)
  /\ marker = MainProjDirs
  /\ disk = [d \in marker |-> NoOutput]
  /\ limits = [reqs |-> RaceRequests, lines |-> RaceLines]

\* SpecResolve: _parse_path on its own, over every placement of the marker files
InitResolve ==
  /\ InitCommon
  /\ postbuild_env \in BOOLEAN
  /\ proxy_base_url \in {Append(b, PathInfo) : b \in ResolveBases}
  /\ jupyter_base_url = GetCmd(proxy_base_url)
  /\ marker \in SUBSET MarkerDirs
  /\ disk = <<>>
  /\ limits = [reqs |-> 0, lines |-> 0]

\* --------------------------------------------------------------- responses
Response(code, kind, root, body, loc, loc_slash, loc_query) ==
  [code |-> code, kind |-> kind, root |-> root, body |-> body,
   loc |-> loc, loc_slash |-> loc_slash, loc_query |-> loc_query]

\* the 200 page rendered from building.html, showing last_output
ProgressPage(d, last_output) ==
  Response(200, "progress", d, <<last_output>>, <<>>, FALSE, "")

\* the built site: directories and files below _build/html
SiteDirs == {<<>>, <<"q">>}
SiteFiles == {<<"p">>}

\* do_GET from "Site is built, serve it" on, SimpleHTTPRequestHandler.do_GET
\* included
StaticResponse(d, file) ==
  LET isdir == HtmlDirExists(d) /\ file.segs \in SiteDirs
  IN  IF isdir /\ ~EndsWithSlash(file)
      THEN Response(301, "redirect", d, <<>>, <<file.segs[Len(file.segs)]>>, TRUE,
                    file.query)
      ELSE IF isdir
      THEN (IF file.segs = <<>> /\ ~IndexExists(d)
            THEN Response(200, "listing", d, <<>>, <<>>, FALSE, "")
            ELSE Response(200, "file", d, file.segs, <<>>, FALSE, ""))
      ELSE IF HtmlDirExists(d) /\ file.segs \in SiteFiles /\ ~file.slash
      THEN Response(200, "file", d, file.segs, <<>>, FALSE, "")
      ELSE Response(404, "notfound", d, <<>>, <<>>, FALSE, "")

\* ----------------------------------------------------- request dispatcher
\* The server is http.server.HTTPServer: it handles one request at a time,
\* so one handler is in flight; requests issued together wait in the listen
\* backlog and Accept takes the next one.  Each "with build_lock" block of
\* do_GET is one step, enabled when the lock is free.

\* the directory tree around the content root, as os.listdir and
\* os.path.isdir see it: NameOrder is sorted(entries) over every name in use
NameOrder == <<".git", "f", "p", "q">>
FsDirs == {<<>>, ContentRoot, <<"home", ".git">>, <<"home", "p">>, <<"home", "q">>,
           <<"home", "p", "q">>}
FsFiles == {<<"home", "f">>}
IsDir(path) == path \in FsDirs
ListDir(d) == {n \in {NameOrder[i] : i \in 1..Len(NameOrder)} :
                 Append(d, n) \in FsDirs \cup FsFiles}

\* (variant of StartsWithDot: no name is hidden)
StartsWithDotNever(name) == FALSE

\* entry.startswith(".")
StartsWithDot(name) == name \in {".git", ".", ".."}

\* _render_directory_browser: the entries of the page, the parent-directory
\* entry first, then one entry per listed directory in sorted order
DirectoryBrowser(d) ==
  LET base_url == BaseUrl(d)
      Listed(n) == /\ IsDir(d)
                   /\ n \in ListDir(d)
                   /\ IsDir(Append(d, n))
                   /\ ~StartsWithDot(n)
      names == SelectSeq(NameOrder, Listed)
      directories == [i \in 1..Len(names) |->
                        [name |-> names[i],
                         dir_url |-> Append(base_url, names[i]),
                         myst_badge |-> HasMarker(Append(d, names[i])),
                         rebuild_button |-> HasMarker(Append(d, names[i]))]]
      parent_directory == IF d = ContentRoot THEN <<>>
                          ELSE <<[name |-> "..",
                                  dir_url |-> Prefix(base_url, Len(base_url) - 1),
                                  myst_badge |-> FALSE,
                                  rebuild_button |-> FALSE]>>
  IN  parent_directory \o directories

\* the query strings of requests; CacheBust is the "_t=<milliseconds>" that
\* the rebuild redirect appends
CacheBust == "_t=1"
Queries == {"", "rebuild=1", CacheBust}

\* parse_qs(urlparse(self.path).query).get("rebuild") == ["1"]
IsRebuild(query) == query = "rebuild=1"

\* the locals of do_GET after "myst_dir, file_path = self._parse_path()"
Request(raw, slash, query) ==
  LET pp == ParsePath(raw, slash, marker)
  IN  [Idle EXCEPT !.myst_dir = pp.myst_dir, !.segs = pp.segs, !.slash = pp.slash,
                   !.path_slash = slash, !.query = query]

\* do_GET up to the first acquisition of build_lock, or up to the directory
\* browser when the directory holds no marker file
Accept(raw, slash, query) ==
  /\ h.pc = "idle"
  /\ nreq < limits.reqs
  /\ nreq' = nreq + 1
  /\ resp' = NoResp
  /\ LET req == Request(raw, slash, query)
         d == req.myst_dir
     IN  IF IsRebuild(query) /\ HasMarker(d)
         THEN /\ disk' = [disk EXCEPT ![d] = NoOutput]
              /\ h' = [req EXCEPT !.pc = "rebuild"]
         ELSE IF ~HasMarker(d)
         THEN /\ h' = [req EXCEPT !.pc = "browser"]
              /\ UNCHANGED disk
         ELSE /\ h' = [req EXCEPT !.pc = "status"]
              /\ UNCHANGED disk
  /\ UNCHANGED <<marker, postbuild_env, jupyter_base_url, build_status, build_lock,
                 workers, rebuilds, limits, parsed,
                 proxy_base_url, rw>>

\* "Show directory browser instead of error page": send_response(200) and
\* the page of _render_directory_browser
Browse ==
  /\ h.pc = "browser"
  /\ resp' = Response(200, "browser", h.myst_dir, DirectoryBrowser(h.myst_dir),
                      <<>>, FALSE, "")
  /\ h' = Idle
  /\ UNCHANGED <<marker, postbuild_env, jupyter_base_url, build_status, build_lock, disk,
                 workers, nreq, rebuilds, limits, parsed,
                 proxy_base_url, rw>>

\* the rebuild branch from "with build_lock" on: del build_status[myst_dir], 302
RebuildReset ==
  /\ h.pc = "rebuild"
  /\ build_lock = 0
  /\ build_status' = Del(build_status, h.myst_dir)
  /\ rebuilds' = [rebuilds EXCEPT ![h.myst_dir] = @ + 1]
  /\ resp' = Response(302, "redirect", h.myst_dir, <<>>,
                      BaseUrl(h.myst_dir) \o h.segs, EndsWithSlash(h), CacheBust)
  /\ h' = Idle
  /\ UNCHANGED <<marker, postbuild_env, jupyter_base_url, build_lock, disk, workers,
                 nreq, limits, parsed,
                 proxy_base_url, rw>>

\* "Check build status": the first locked read, and the building page
ReadStatus ==
  /\ h.pc = "status"
  /\ build_lock = 0
  /\ LET status == Status(h.myst_dir)
         last_output == StatusGet(h.myst_dir, "last_output", 0)
     IN  IF status = "building"
         THEN /\ resp' = ProgressPage(h.myst_dir, last_output)
              /\ h' = Idle
         ELSE /\ h' = [h EXCEPT !.pc = IF status = "failed" THEN "error" ELSE "needs"]
              /\ UNCHANGED resp
  /\ UNCHANGED <<marker, postbuild_env, jupyter_base_url, build_status, build_lock, disk,
                 workers, nreq, rebuilds, limits, parsed,
                 proxy_base_url, rw>>

\* status == "failed": the second locked read, and the 500 response
ReadError ==
  /\ h.pc = "error"
  /\ build_lock = 0
  /\ resp' = Response(500, "failed", h.myst_dir,
                      StatusGet(h.myst_dir, "error", UnknownError), <<>>, FALSE, "")
  /\ h' = Idle
  /\ UNCHANGED <<marker, postbuild_env, jupyter_base_url, build_status, build_lock, disk,
                 workers, nreq, rebuilds, limits, parsed,
                 proxy_base_url, rw>>

\* "if self._needs_build(myst_dir)"
CheckNeedsBuild ==
  /\ h.pc = "needs"
  /\ h' = [h EXCEPT !.pc = IF NeedsBuild(h.myst_dir) THEN "set" ELSE "serve"]
  /\ UNCHANGED <<marker, postbuild_env, jupyter_base_url, build_status, build_lock, disk,
                 workers, resp, nreq, rebuilds, limits, parsed,
                 proxy_base_url, rw>>

\* a thread of _start_build before it has run
NewWorker(d) ==
  [root |-> d, base_url |-> BaseUrl(d), pc |-> "start", output_lines |-> <<>>,
   returncode |-> 0, wrote |-> FALSE, epoch |-> rebuilds[d]]

\* the third locked block (build_status[myst_dir] = building), _start_build,
\* and the building page
SetBuilding ==
  /\ h.pc = "set"
  /\ build_lock = 0
  /\ build_status' = Put(build_status, h.myst_dir,
                         [status |-> "building", last_output |-> 0,
                          by |-> Len(workers) + 1])
  /\ workers' = Append(workers, NewWorker(h.myst_dir))
  /\ resp' = ProgressPage(h.myst_dir, 0)
  /\ h' = Idle
  /\ UNCHANGED <<marker, postbuild_env, jupyter_base_url, build_lock, disk,
                 nreq, rebuilds, limits, parsed,
                 proxy_base_url, rw>>

\* "Site is built, serve it"
Serve ==
  /\ h.pc = "serve"
  /\ resp' = StaticResponse(h.myst_dir, h)
  /\ h' = Idle
  /\ UNCHANGED <<marker, postbuild_env, jupyter_base_url, build_status, build_lock, disk,
                 workers, nreq, rebuilds, limits, parsed,
                 proxy_base_url, rw>>

\* ------------------------------------------------------------ build worker
\* One entry of workers is one thread started by _start_build together with
\* the subprocess it runs.  pc: "start" before Popen, "run" while the
\* subprocess runs and the thread reads its output, "exited" after
\* process.wait(), "postbuild" inside the final locked block with exit code
\* 0, "except" after an exception, "done" when the thread has ended.

SetWorker(w, rec) == [workers EXCEPT ![w] = rec]

\* the locals of a thread are gone when it ends; root and epoch stay as history
Ended(rec) == [rec EXCEPT !.pc = "done", !.output_lines = <<>>, !.wrote = FALSE,
                          !.returncode = 0]

\* (variant of LastLines: the first lines kept instead of the last)
FirstLines(lines) ==
  IF Len(lines) <= ErrorTail THEN lines ELSE SubSeq(lines, 1, ErrorTail)

\* "\n".join(output_lines[-20:])
LastLines(lines) ==
  IF Len(lines) <= ErrorTail THEN lines
  ELSE SubSeq(lines, Len(lines) - ErrorTail + 1, Len(lines))

\* build_status[myst_dir]["last_output"] = line
SetLastOutput(rec, line) ==
  [k \in DOMAIN rec \cup {"last_output"} |-> IF k = "last_output" THEN line ELSE rec[k]]

\* the states _postbuild can leave _build/html in.  It returns normally in
\* every case: the RuntimeError raised for a file without "</body>" is
\* caught by its own "except Exception" (which logs and returns), after the
\* files globbed before that one have been rewritten.
PostbuildResults(d) ==
  IF ~postbuild_env \/ Out(d).out = "none" THEN {Out(d)}
  ELSE IF Out(d).out = "nobody"
  THEN {Out(d), [Out(d) EXCEPT !.injected = TRUE]}
  ELSE {[Out(d) EXCEPT !.injected = TRUE]}

\* subprocess.Popen succeeds
BuildSpawn(w) ==
  /\ workers[w].pc = "start"
  /\ workers' = SetWorker(w, [workers[w] EXCEPT !.pc = "run"])
  /\ UNCHANGED <<marker, postbuild_env, jupyter_base_url, build_status, build_lock, disk,
                 h, resp, nreq, rebuilds, limits, parsed,
                 proxy_base_url, rw>>

\* subprocess.Popen raises (the command is missing, the directory is gone)
BuildSpawnFails(w) ==
  /\ workers[w].pc = "start"
  /\ workers' = SetWorker(w, [workers[w] EXCEPT !.pc = "except"])
  /\ UNCHANGED <<marker, postbuild_env, jupyter_base_url, build_status, build_lock, disk,
                 h, resp, nreq, rebuilds, limits, parsed,
                 proxy_base_url, rw>>

\* (variant of UpdateLastOutput: the field is set without the membership test)
UpdateLastOutputAlways(d, line) ==
  Put(build_status, d,
      SetLastOutput(IF d \in DOMAIN build_status THEN build_status[d] ELSE <<>>, line))

\* if myst_dir in build_status: build_status[myst_dir]["last_output"] = line
UpdateLastOutput(d, line) ==
  IF d \in DOMAIN build_status
  THEN [build_status EXCEPT ![d] = SetLastOutput(@, line)]
  ELSE build_status

\* one non-empty line of output: appended, then last_output set under the lock
BuildLine(w) ==
  /\ workers[w].pc = "run"
  /\ Len(workers[w].output_lines) < limits.lines
  /\ build_lock = 0
  /\ LET line == Len(workers[w].output_lines) + 1
         d == workers[w].root
     IN  /\ workers' = SetWorker(w, [workers[w] EXCEPT !.output_lines = Append(@, line)])
         /\ build_status' = UpdateLastOutput(d, line)
  /\ UNCHANGED <<marker, postbuild_env, jupyter_base_url, build_lock, disk,
                 h, resp, nreq, rebuilds, limits, parsed,
                 proxy_base_url, rw>>

\* the subprocess writes its output tree (once per run, at any moment)
BuildWrite(w, o) ==
  /\ workers[w].pc = "run"
  /\ ~workers[w].wrote
  /\ workers' = SetWorker(w, [workers[w] EXCEPT !.wrote = TRUE])
  /\ disk' = [disk EXCEPT ![workers[w].root] = [out |-> o, injected |-> FALSE]]
  /\ UNCHANGED <<marker, postbuild_env, jupyter_base_url, build_status, build_lock,
                 h, resp, nreq, rebuilds, limits, parsed,
                 proxy_base_url, rw>>

\* the subprocess exits: end of its output, process.wait() returns
BuildExit(w, rc) ==
  /\ workers[w].pc = "run"
  /\ workers' = SetWorker(w, [workers[w] EXCEPT
                  !.pc = "exited", !.returncode = rc, !.wrote = FALSE,
                  !.output_lines = IF rc = 0 THEN <<>> ELSE @])
  /\ UNCHANGED <<marker, postbuild_env, jupyter_base_url, build_status, build_lock, disk,
                 h, resp, nreq, rebuilds, limits, parsed,
                 proxy_base_url, rw>>

\* the final locked block, returncode != 0
BuildFailed(w) ==
  /\ workers[w].pc = "exited"
  /\ workers[w].returncode # 0
  /\ build_lock = 0
  /\ build_status' = Put(build_status, workers[w].root,
                         [status |-> "failed",
                          error |-> LastLines(workers[w].output_lines), by |-> w])
  /\ workers' = SetWorker(w, Ended(workers[w]))
  /\ UNCHANGED <<marker, postbuild_env, jupyter_base_url, build_lock, disk,
                 h, resp, nreq, rebuilds, limits, parsed,
                 proxy_base_url, rw>>

\* the final locked block, returncode == 0: the lock is taken
BuildLock(w) ==
  /\ workers[w].pc = "exited"
  /\ workers[w].returncode = 0
  /\ build_lock = 0
  /\ build_lock' = w
  /\ workers' = SetWorker(w, [workers[w] EXCEPT !.pc = "postbuild"])
  /\ UNCHANGED <<marker, postbuild_env, jupyter_base_url, build_status, disk,
                 h, resp, nreq, rebuilds, limits, parsed,
                 proxy_base_url, rw>>

\* ... _postbuild runs with the lock held, the status is set, the lock released
BuildSucceeded(w) ==
  /\ workers[w].pc = "postbuild"
  /\ build_lock = w
  /\ \E result \in PostbuildResults(workers[w].root) :
        disk' = [disk EXCEPT ![workers[w].root] = result]
  /\ build_status' = Put(build_status, workers[w].root, [status |-> "success", by |-> w])
  /\ build_lock' = 0
  /\ workers' = SetWorker(w, Ended(workers[w]))
  /\ UNCHANGED <<marker, postbuild_env, jupyter_base_url,
                 h, resp, nreq, rebuilds, limits, parsed,
                 proxy_base_url, rw>>

\* reading the subprocess output raises (the output is not valid text)
BuildRaises(w) ==
  /\ workers[w].pc = "run"
  /\ workers' = SetWorker(w, [workers[w] EXCEPT !.pc = "except", !.wrote = FALSE,
                                                !.output_lines = <<>>])
  /\ UNCHANGED <<marker, postbuild_env, jupyter_base_url, build_status, build_lock, disk,
                 h, resp, nreq, rebuilds, limits, parsed,
                 proxy_base_url, rw>>

\* _postbuild raises before its own try block (remixContextMod.html cannot
\* be opened): the exception leaves the final locked block, releasing the lock
PostbuildRaises(w) ==
  /\ workers[w].pc = "postbuild"
  /\ build_lock = w
  /\ postbuild_env
  /\ build_lock' = 0
  /\ workers' = SetWorker(w, [workers[w] EXCEPT !.pc = "except"])
  /\ UNCHANGED <<marker, postbuild_env, jupyter_base_url, build_status, disk,
                 h, resp, nreq, rebuilds, limits, parsed,
                 proxy_base_url, rw>>

\* (variant of ExceptRecord: the exception is only logged)
ExceptRecordLogged(w) == [status |-> "building", last_output |-> 0, by |-> w]

\* {"status": "failed", "error": str(e)}
ExceptRecord(w) == [status |-> "failed", error |-> ExcText, by |-> w]

\* "except Exception as e": failed with str(e)
BuildExcept(w) ==
  /\ workers[w].pc = "except"
  /\ build_lock = 0
  /\ build_status' = Put(build_status, workers[w].root, ExceptRecord(w))
  /\ workers' = SetWorker(w, Ended(workers[w]))
  /\ UNCHANGED <<marker, postbuild_env, jupyter_base_url, build_lock, disk,
                 h, resp, nreq, rebuilds, limits, parsed,
                 proxy_base_url, rw>>

\* ----------------------------------------------------------- specification
ReqPaths == SeqsUpTo(Segs, MaxReqLen)
ExitCodes == {0, 2}

Next ==
  \/ /\ h.pc = "idle"
     /\ \E raw \in ReqPaths, slash \in BOOLEAN, query \in Queries :
           (raw = <<>> => slash) /\ Accept(raw, slash, query)
  \/ Browse
  \/ RebuildReset
  \/ ReadStatus
  \/ ReadError
  \/ CheckNeedsBuild
  \/ SetBuilding
  \/ Serve
  \/ \E w \in 1..Len(workers) : BuildSpawn(w)
  \/ \E w \in 1..Len(workers) : BuildSpawnFails(w)
  \/ \E w \in 1..Len(workers) : BuildLine(w)
  \/ \E w \in 1..Len(workers), o \in BuilderOutputs : BuildWrite(w, o)
  \/ \E w \in 1..Len(workers), rc \in ExitCodes : BuildExit(w, rc)
  \/ \E w \in 1..Len(workers) : BuildFailed(w)
  \/ \E w \in 1..Len(workers) : BuildLock(w)
  \/ \E w \in 1..Len(workers) : BuildSucceeded(w)
  \/ \E w \in 1..Len(workers) : BuildRaises(w)
  \/ \E w \in 1..Len(workers) : PostbuildRaises(w)
  \/ \E w \in 1..Len(workers) : BuildExcept(w)

Spec == Init /\ [][Next]_vars

\* the steps a worker thread takes by itself once started: Popen returns or
\* raises, the subprocess ends (or reading its output raises), the final
\* locked block or the exception handler runs as soon as it gets the lock.
\* Printing a line and writing the output tree are steps of the subprocess
\* that need not happen.
WorkerStep(w) ==
  /\ w \in 1..Len(workers)
  /\ \/ BuildSpawn(w)
     \/ BuildSpawnFails(w)
     \/ \E rc \in ExitCodes : BuildExit(w, rc)
     \/ BuildRaises(w)
     \/ BuildFailed(w)
     \/ BuildLock(w)
     \/ BuildSucceeded(w)
     \/ PostbuildRaises(w)
     \/ BuildExcept(w)

\* SpecFair: one project directory without output, the post-build hook on,
\* every started thread scheduled and every subprocess terminating
InitFair ==
  /\ InitCommon
  /\ postbuild_env = TRUE
  /\ proxy_base_url \in {Append(b, PathInfo) : b \in JupyterBases}
  /\ jupyter_base_url = GetCmd(proxy_base_url)
  /\ marker = MainProjDirs
  /\ disk = [d \in marker |-> NoOutput]
  /\ limits = [reqs |-> FairRequests, lines |-> FairLines]

SpecFair ==
  InitFair /\ [][Next]_vars /\ \A w \in 1..FairRequests : WF_vars(WorkerStep(w))

SpecLong == InitLong /\ [][Next]_vars

SpecTwo == InitTwo /\ [][Next]_vars

SpecRace == InitRace /\ [][Next]_vars

\* the head of do_GET: a call of _parse_path, then base_url
Resolve(raw, slash) ==
  /\ ~parsed.done
  /\ LET pp == ParsePath(raw, slash, marker)
     IN  parsed' = [raw |-> raw, slash |-> slash, myst_dir |-> pp.myst_dir,
                    segs |-> pp.segs, file_slash |-> pp.slash,
                    base_url |-> BaseUrl(pp.myst_dir), done |-> TRUE]
  /\ UNCHANGED <<marker, postbuild_env, jupyter_base_url, build_status, build_lock, disk,
                 workers, h, resp, nreq, rebuilds, limits, proxy_base_url, rw>>

RawPaths == SeqsUpTo(RawSegs, MaxPathLen)

NextResolve ==
  \E raw \in RawPaths, slash \in BOOLEAN : (raw = <<>> => slash) /\ Resolve(raw, slash)

SpecResolve == InitResolve /\ [][NextResolve]_vars

\* ------------------------------------------------------- response rewriter
\* rewrite_myst_response of the server extension.  A body is a sequence of
\* pieces: a piece is either markup the pattern cannot match (url = FALSE)
\* or one occurrence "url":"VALUE", where VALUE is "/" (when abs) followed
\* by the segments joined with "/" and by "/" (when slash).

Text == [url |-> FALSE, abs |-> FALSE, segs |-> <<>>, slash |-> FALSE]
Url(abs, segs, slash) == [url |-> TRUE, abs |-> abs, segs |-> segs, slash |-> slash]

\* the content types of upstream responses
ContentTypes == {"text/html; charset=utf-8", "application/json", ""}
\* (variant of ContainsTextHtml: every content type is rewritten)
ContainsTextHtmlAlways(content_type) == TRUE

\* "text/html" in content_type
ContainsTextHtml(content_type) ==
  content_type \in {"text/html", "text/html; charset=utf-8"}

\* "." in parts[-1]
HasDot(seg) == seg \in {"a.html", ".", "..", "%2e%2e"}

\* (variant of FileLike: only a dotted last segment is taken for a file)
FileLikeDotOnly(parts) == parts # <<>> /\ HasDot(parts[Len(parts)])

\* parts and ("." in parts[-1] or parts[-1] in ["index"])
FileLike(parts) ==
  parts # <<>> /\ (HasDot(parts[Len(parts)]) \/ parts[Len(parts)] = "index")

\* path.startswith(proxy_base + "/") or path == proxy_base
UnderProxy(path, proxy_base) ==
  Len(path) >= Len(proxy_base) /\ Prefix(path, Len(proxy_base)) = proxy_base

\* (variant of JupyterBase: cut at the first "/myst-build", not at the last)
JupyterBaseFirst(proxy_base) ==
  LET at == {i \in 1..Len(proxy_base) : proxy_base[i] = PathInfo}
  IN  IF at = {} THEN <<>>
      ELSE Prefix(proxy_base, (CHOOSE i \in at : \A j \in at : i <= j) - 1)

\* jupyter_base: proxy_base[:-11] if proxy_base.endswith("/myst-build") else ""
JupyterBase(proxy_base) ==
  IF proxy_base # <<>> /\ proxy_base[Len(proxy_base)] = PathInfo
  THEN Prefix(proxy_base, Len(proxy_base) - 1)
  ELSE <<>>

\* base_url of rewrite_myst_response for the request path
RewriteBase(path, proxy_base) ==
  LET project_and_file == Suffix(path, Len(proxy_base))
      parts == IF FileLike(project_and_file)
               THEN Prefix(project_and_file, Len(project_and_file) - 1)
               ELSE project_and_file
  IN  JupyterBase(proxy_base) \o <<PathInfo>> \o parts

\* the pattern "url":"(/(?!myst-build/|user/)[^"]+)" matches the piece
Matches(piece) ==
  /\ piece.url
  /\ piece.abs
  /\ piece.segs # <<>>
  /\ ~(/\ piece.segs[1] \in {PathInfo, "user"}
       /\ (Len(piece.segs) > 1 \/ piece.slash))

\* re.sub(pattern, '"url":"{base_url}\1"', body)
Sub(body, base_url) ==
  [i \in 1..Len(body) |->
     IF Matches(body[i]) THEN [body[i] EXCEPT !.segs = base_url \o @] ELSE body[i]]

\* len(response.body): one unit per piece, per segment and per "/"
RECURSIVE BodyLen(_)
BodyLen(body) ==
  IF body = <<>> THEN 0
  ELSE LET piece == body[1]
       IN  1 + 2 * Len(piece.segs) + (IF piece.slash THEN 1 ELSE 0) + BodyLen(Tail(body))

\* rewrite_myst_response(response, request), path = urlparse(request.uri).path
RewriteMystResponse(response, path) ==
  IF ~ContainsTextHtml(response.content_type) THEN response
  ELSE IF proxy_base_url = None THEN response
  ELSE IF ~UnderProxy(path, proxy_base_url) THEN response
  ELSE LET body == Sub(response.body, RewriteBase(path, proxy_base_url))
       IN  [response EXCEPT !.body = body, !.content_length = BodyLen(body)]

\* the "url" values of upstream bodies
UrlPieces ==
  {Url(TRUE, <<>>, FALSE), Url(FALSE, <<"p">>, FALSE),
   Url(TRUE, <<"p">>, FALSE), Url(TRUE, <<"p">>, TRUE),
   Url(TRUE, <<PathInfo>>, FALSE), Url(TRUE, <<PathInfo, "p">>, FALSE),
   Url(TRUE, <<"user", "u", PathInfo, "p">>, FALSE),
   Url(TRUE, <<"tenant7", PathInfo, "p">>, FALSE)}
Bodies == SeqsUpTo(UrlPieces \cup {Text}, MaxBodyLen)

\* the request paths the gateway forwards: below its mount point, or not
UriSegs == {"p", "index", "a.html"}
MountPoint == IF proxy_base_url = None THEN <<PathInfo>> ELSE proxy_base_url
Uris == {MountPoint \o raw : raw \in SeqsUpTo(UriSegs, MaxUriLen)} \cup {<<"lab">>}

\* the gateway receives the upstream response of a request
Upstream(uri, content_type, body) ==
  /\ rw.n = -1
  /\ rw' = [n |-> 0, uri |-> uri,
            response |-> [content_type |-> content_type, body |-> body,
                          content_length |-> BodyLen(body)]]
  /\ UNCHANGED <<marker, postbuild_env, jupyter_base_url, build_status, build_lock, disk,
                 workers, h, resp, nreq, rebuilds, limits, parsed, proxy_base_url>>

\* the gateway applies its rewrite_response hook to the response
Rewrite ==
  /\ rw.n >= 0
  /\ rw.n < MaxRewrites
  /\ rw' = [rw EXCEPT !.n = @ + 1, !.response = RewriteMystResponse(@, rw.uri)]
  /\ UNCHANGED <<marker, postbuild_env, jupyter_base_url, build_status, build_lock, disk,
                 workers, h, resp, nreq, rebuilds, limits, parsed, proxy_base_url>>

\* SpecRewrite: the rewriter on its own, before and after _get_cmd has run,
\* beside a static server whose project home/p is built
InitRewrite ==
  /\ InitCommon
  /\ postbuild_env = FALSE
  /\ proxy_base_url \in {None} \cup {Append(b, PathInfo) : b \in MountBases}
  /\ jupyter_base_url = IF proxy_base_url = None THEN <<>> ELSE GetCmd(proxy_base_url)
  /\ marker = MainProjDirs
  /\ disk = [d \in marker |-> [out |-> "index", injected |-> FALSE]]
  /\ limits = [reqs |-> 0, lines |-> 0]

NextRewrite ==
  \/ /\ rw.n = -1
     /\ \E uri \in Uris, content_type \in ContentTypes, body \in Bodies :
           Upstream(uri, content_type, body)
  \/ Rewrite

SpecRewrite == InitRewrite /\ [][NextRewrite]_vars

\* ------------------------------------------------------------------ claims
\* the build threads started for directory d, and those still alive
Launched(d) == {w \in 1..Len(workers) : workers[w].root = d}
InFlight(d) == {w \in Launched(d) : workers[w].pc # "done"}

\* this step writes status "success" into the record of d
SetToSuccess(d) ==
  /\ Status(d)' = "success"
  /\ \/ Status(d) # "success"
     \/ build_status'[d].by # build_status[d].by

\* C1: in every reachable state, whatever the interleaving of requests
\* (rebuild requests included) and build workers, at most one build worker
\* is in flight for a project root.
C1_OneWorkerPerRoot == \A d \in ProjDirs : Cardinality(InFlight(d)) <= 1

\* C2: as long as no rebuild is requested for a project root, the requests
\* made for it launch exactly one build subprocess: a later caller starts
\* nothing.
C2_OneLaunchWithoutRebuild ==
  \A d \in ProjDirs : rebuilds[d] = 0 => Cardinality(Launched(d)) <= 1

\* C3: a status read made after a rebuild reset the record never observes a
\* "success" or "failed" written by a build that was started before that
\* rebuild.
C3_ReadNeverStale ==
  (h.pc = "status" /\ build_lock = 0 /\ Status(h.myst_dir) \in {"success", "failed"})
     => workers[build_status[h.myst_dir].by].epoch = rebuilds[h.myst_dir]

\* C4: every change of a record's status is absent->building,
\* building->success, building->failed, success->absent or failed->absent,
\* the last two only in the step of a rebuild request.
AllowedTransitions ==
  {<<"none", "building">>, <<"building", "success">>, <<"building", "failed">>,
   <<"success", "none">>, <<"failed", "none">>}

C4_StatusTransitions ==
  [][\A d \in ProjDirs :
        Status(d)' # Status(d) =>
           /\ <<Status(d), Status(d)'>> \in AllowedTransitions
           /\ Status(d)' = "none" => (h.pc = "rebuild" /\ h.myst_dir = d)]_vars

\* C5: whenever a record is set to "success", _build/html/index.html exists
\* at that moment.
C5_SuccessHasIndex ==
  [][\A d \in ProjDirs : SetToSuccess(d) => IndexExists(d)']_vars

\* C6: a request that reads status "failed" is answered with 500, starts no
\* build and leaves the record as it is, and the status leaves "failed"
\* only in the step of a rebuild request.
C6_FailedUntilRebuild ==
  [][/\ (h.pc = "status" /\ h' # h /\ Status(h.myst_dir) = "failed")
          => (h'.pc = "error" /\ build_status' = build_status /\ workers' = workers)
     /\ (h.pc = "error" /\ h'.pc = "idle")
          => (resp'.code = 500 /\ build_status' = build_status /\ workers' = workers)
     /\ \A d \in ProjDirs :
          (Status(d) = "failed" /\ Status(d)' # "failed")
             => (h.pc = "rebuild" /\ h.myst_dir = d /\ h'.pc = "idle")]_vars

\* C7: when the builder exited with code 0, the post-build hook is enabled
\* and an output HTML file lacks "</body>", the worker ends with the record
\* "failed", never "success".
C7_MissingBodyFails ==
  [][\A w \in 1..Len(workers) :
        (/\ workers[w].pc = "postbuild"
         /\ workers'[w].pc = "done"
         /\ postbuild_env
         /\ Out(workers[w].root).out = "nobody")
           => Status(workers[w].root)' = "failed"]_vars

Min(a, b) == IF a <= b THEN a ELSE b

\* a non-rebuild request for a project is answered in this step
Answers == h.pc \notin {"idle", "rebuild", "browser"} /\ h'.pc = "idle"

\* C8: when the build subprocess exits with a non-zero code the record
\* becomes "failed" with, as error text, the last min(20, n) of the n
\* non-empty output lines of that build; a request that then finds the
\* record "failed" is answered 500 with that error text as body.
C8_FailedBuildReported ==
  [][/\ \A w \in 1..Len(workers) :
          (/\ workers[w].pc = "exited"
           /\ workers[w].returncode # 0
           /\ workers'[w].pc = "done")
            => LET d == workers[w].root
                   lines == workers[w].output_lines
                   n == Len(lines)
                   e == build_status'[d].error
               IN  /\ Status(d)' = "failed"
                   /\ Len(e) = Min(ErrorTail, n)
                   /\ \A i \in 1..Len(e) : e[i] = lines[n - Len(e) + i]
     /\ (h.pc = "status" /\ h' # h /\ Status(h.myst_dir) = "failed")
          => h'.pc = "error"
     /\ (h.pc = "error" /\ h'.pc = "idle" /\ Status(h.myst_dir) = "failed")
          => /\ resp'.code = 500
             /\ resp'.root = h.myst_dir
             /\ resp'.body = build_status[h.myst_dir].error]_vars

\* C8 witness: a 500 response whose body is the 20-line tail of a longer output
C8_Witness ==
  /\ resp.code = 500
  /\ Len(resp.body) = ErrorTail
  /\ resp.body[1] = 2
  /\ \E w \in 1..Len(workers) : workers[w].pc = "done"

\* C9: the first request for a project with a marker file, no record and no
\* built output is answered with the 200 progress page and leaves the status
\* "building"; once a build has ended in "success" with index.html on disk
\* and no rebuild was requested, a request for the project's root page is
\* answered 200 with the built file, not with the progress page.
C9_ProgressThenSite ==
  [][\A d \in ProjDirs :
       /\ (Answers /\ h.myst_dir = d /\ Launched(d) = {} /\ ~IndexExists(d))
            => /\ resp' = ProgressPage(d, 0)
               /\ Status(d)' = "building"
               /\ Cardinality(Launched(d)') = 1
       /\ (/\ Answers
           /\ h.myst_dir = d
           /\ h.segs = <<>>
           /\ rebuilds[d] = 0
           /\ Status(d) = "success"
           /\ IndexExists(d))
            => /\ resp'.code = 200
               /\ resp'.kind = "file"
               /\ resp'.root = d
               /\ workers' = workers]_vars

\* C9 witness: the built site served after a build this server ran
C9_Witness ==
  /\ resp.code = 200
  /\ resp.kind = "file"
  /\ resp.root \in marker
  /\ rebuilds[resp.root] = 0
  /\ Launched(resp.root) # {}
  /\ Status(resp.root) = "success"

\* C10: when some segment prefix of the request path names a directory that
\* holds the marker file, _parse_path returns the directory of the longest
\* such prefix as project root and the remaining segments as in-project
\* path, with a trailing slash exactly when the request path ends in one
\* and segments remain.
C10_LongestMarkedPrefix ==
  parsed.done =>
    LET parts == Unquote(parsed.raw)
        marked == {i \in 1..Len(parts) : Abspath(ContentRoot \o Prefix(parts, i)) \in marker}
    IN  marked # {} =>
          LET m == CHOOSE i \in marked : \A j \in marked : j <= i
          IN  /\ parsed.myst_dir = Abspath(ContentRoot \o Prefix(parts, m))
              /\ parsed.segs = Suffix(parts, m)
              /\ parsed.file_slash <=> (parsed.slash /\ Suffix(parts, m) # <<>>)

\* C10 witness: a nested project resolved below an enclosing project
C10_Witness ==
  /\ parsed.done
  /\ <<"home", "p">> \in marker
  /\ parsed.myst_dir = <<"home", "p", "q">>
  /\ parsed.segs = <<"p">>
  /\ parsed.file_slash

\* d is the content root or lies below it
InsideContentRoot(d) ==
  Len(d) >= Len(ContentRoot) /\ Prefix(d, Len(ContentRoot)) = ContentRoot

\* the directories whose myst.yml the loop of _parse_path tests: those of the
\* prefixes from the longest down to the first that holds the marker file
Checked(parts, markers) ==
  LET i == FindProject(parts, Len(parts), markers)
  IN  {Abspath(ContentRoot \o Prefix(parts, j)) :
         j \in (IF i = 0 THEN 1 ELSE i)..Len(parts)}

\* C11: for every request path, "." and ".." segments (also percent-encoded)
\* included, the project root returned by _parse_path is the content root
\* or a descendant of it, and no directory outside the content root is
\* tested for the marker file.
C11_RootInsideContentRoot ==
  parsed.done =>
    /\ InsideContentRoot(parsed.myst_dir)
    /\ \A d \in Checked(Unquote(parsed.raw), marker) : InsideContentRoot(d)

\* this step applies the rewriter to the response
Rewrites == rw.n >= 0 /\ rw'.n = rw.n + 1

\* C12: applying the rewriter to a body it has already rewritten, for the
\* same request, leaves the response unchanged, whatever the mount prefix.
C12_RewriteIdempotent ==
  [][(Rewrites /\ rw.n >= 1) => rw'.response = rw.response]_vars

StartsWithDir(piece, seg) ==
  /\ piece.segs # <<>>
  /\ piece.segs[1] = seg
  /\ (Len(piece.segs) > 1 \/ piece.slash)

C15_SameProjectBoundary ==
  (rw.n >= 0 /\ proxy_base_url # None /\ UnderProxy(rw.uri, proxy_base_url)) =>
     \A slash \in BOOLEAN :
        LET req == Request(Suffix(rw.uri, Len(proxy_base_url)), slash, "")
            served == StaticResponse(req.myst_dir, req)
        IN  (HasMarker(req.myst_dir) /\ served.code = 200 /\ served.kind = "file")
               => RewriteBase(rw.uri, proxy_base_url) = BaseUrl(req.myst_dir)

\* C16: every GET with rebuild=1 is answered 302 with, as Location, the
\* base URL followed by the in-project path and one cache-busting
\* parameter, without the rebuild parameter.
C16_RebuildRedirects ==
  [][(h.pc # "idle" /\ h'.pc = "idle" /\ IsRebuild(h.query))
       => /\ resp'.code = 302
          /\ resp'.loc = BaseUrl(h.myst_dir) \o h.segs
          /\ resp'.loc_query = CacheBust]_vars

\* C17: a rebuild request for a project root leaves _build/html absent and
\* the root's record absent; when both were absent already, it changes
\* neither.
C17_RebuildResets ==
  [][\A d \in ProjDirs :
       /\ (h.pc = "rebuild" /\ h.myst_dir = d /\ h'.pc = "idle")
            => /\ ~HtmlDirExists(d)'
               /\ d \notin DOMAIN build_status'
               /\ d \notin DOMAIN build_status => build_status' = build_status
       /\ (h.pc = "idle" /\ h'.pc = "rebuild" /\ h'.myst_dir = d /\ ~HtmlDirExists(d))
            => disk' = disk]_vars

\* C18: a GET whose resolved directory holds no marker file is answered 200
\* with the directory browser and changes no record, no output and starts
\* no build; a record is created and a build started only by a request
\* whose directory holds the marker file.
C18_NoMarkerBrowser ==
  [][/\ (h.pc = "idle" /\ h' # h /\ h'.myst_dir \notin marker)
          => /\ h'.pc = "browser"
             /\ UNCHANGED <<build_status, workers, disk>>
     /\ (h.pc = "browser" /\ h' # h)
          => /\ h'.pc = "idle"
             /\ resp'.code = 200
             /\ resp'.kind = "browser"
             /\ resp'.root = h.myst_dir
             /\ UNCHANGED <<build_status, workers, disk>>
     /\ Len(workers') > Len(workers)
          => /\ h.myst_dir \in marker
             /\ workers'[Len(workers')].root = h.myst_dir
     /\ \A d \in (DOMAIN build_status') \ DOMAIN build_status : d \in marker]_vars

\* C18 witness: the browser page answered for a directory without marker
\* file, after a build was started for a project
C18_Witness ==
  /\ resp.code = 200
  /\ resp.kind = "browser"
  /\ resp.root \notin marker
  /\ workers # <<>>

\* C19: a request that arrives while the status is "building" never has to
\* wait for the post-build hook: when it is about to read the status, the
\* lock is not held by a worker running _postbuild.
C19_StatusReadNeverWaits ==
  ~(/\ h.pc = "status"
    /\ Status(h.myst_dir) = "building"
    /\ postbuild_env
    /\ build_lock # 0
    /\ workers[build_lock].pc = "postbuild")

\* C20: for a built project, a request whose target below _build/html is a
\* directory and whose path does not end in "/" (the project root without
\* trailing slash included) is answered 301 to the same path with "/"
\* appended and the query string kept.
C20_DirectoryRedirect ==
  [][(/\ h.pc = "serve"
      /\ h'.pc = "idle"
      /\ HtmlDirExists(h.myst_dir)
      /\ h.segs \in SiteDirs
      /\ ~h.path_slash)
       => /\ resp'.code = 301
          /\ resp'.loc_slash
          /\ resp'.loc_query = h.query
          /\ h.segs # <<>> => resp'.loc = <<h.segs[Len(h.segs)]>>]_vars

RecordOf(d) == IF d \in DOMAIN build_status THEN {build_status[d]} ELSE {}

\* the project root a handler step acts for
HandlerRoot == IF h.pc = "idle" THEN h'.myst_dir ELSE h.myst_dir

\* this step is a step of the handler, or of a build worker, for root d
StepFor(d) ==
  \/ h' # h /\ HandlerRoot = d
  \/ /\ h' = h
     /\ \E w \in 1..Len(workers) : workers[w].root = d /\ workers'[w] # workers[w]

\* C22: builds of different project roots are independent: a step of the
\* handler or of a build worker for one root changes neither the Build Record
\* nor the output directory of another root; the handler's decision after the
\* status read depends on the record of the requested root alone; a handler
\* about to start a build for one root while a build of another root is in
\* flight can start it as soon as the lock is free, and a held lock is
\* released by its holder's next step; a response served from the built site
\* comes from the requested root's own, existing output directory.
C22_RootsIndependent ==
  /\ [](\A d \in ProjDirs :
          (h.pc = "set" /\ h.myst_dir = d /\ \E e \in ProjDirs \ {d} : InFlight(e) # {})
            => \/ ENABLED SetBuilding
               \/ /\ build_lock \in 1..Len(workers)
                  /\ workers[build_lock].root # d
                  /\ ENABLED BuildSucceeded(build_lock))
  /\ [][ /\ \A d \in ProjDirs :
              (RecordOf(d)' # RecordOf(d) \/ disk'[d] # disk[d]) => StepFor(d)
         /\ \A d \in ProjDirs :
              (h.pc = "status" /\ h.myst_dir = d /\ h' # h
                 /\ Status(d) \notin {"building", "failed"}) => h'.pc = "needs"
         /\ \A d \in ProjDirs :
              (h.pc = "set" /\ h.myst_dir = d /\ h' # h)
                => /\ Len(workers') = Len(workers) + 1
                   /\ workers'[Len(workers')].root = d
                   /\ Status(d)' = "building"
         /\ \A d \in ProjDirs :
              (h.pc = "serve" /\ h.myst_dir = d /\ h' # h)
                => /\ resp'.root = d
                   /\ resp'.kind \in {"file", "redirect", "listing"} => disk[d].out # "none"
                   /\ (h.segs = <<>> /\ disk[d].out # "none")
                        => resp'.kind \in {"file", "listing"}
       ]_vars

\* C22 witness: a build is started for one root while the build of the other
\* root is in flight and has already set its last output line
C22_Witness ==
  /\ Len(workers) = 2
  /\ workers[1].root # workers[2].root
  /\ workers[1].pc = "run"
  /\ workers[2].pc = "start"
  /\ Status(workers[1].root) = "building"
  /\ Status(workers[2].root) = "building"
  /\ StatusGet(workers[1].root, "last_output", 0) = 1
  /\ resp.kind = "progress"
  /\ resp.root = workers[2].root

\* C23: for every proxy base URL B that ends in the path-info segment, the
\* Jupyter base the command builder hands to the static server and the
\* Jupyter base the rewriter derives are both B without its last segment
\* (one "/myst-build" removed, also when the segment before it is
\* "myst-build" too), so the base URL the static server builds for a project
\* and the base URL the rewriter prepends for a page of that project agree.
C23_OneSuffixRemoved ==
  /\ []((proxy_base_url # None /\ proxy_base_url[Len(proxy_base_url)] = PathInfo)
         => LET B == proxy_base_url
                stripped == SubSeq(B, 1, Len(B) - 1)
            IN  /\ jupyter_base_url = stripped
                /\ JupyterBase(B) = stripped
                /\ \A d \in marker \cup {ContentRoot} :
                      LET rel == IF d = ContentRoot THEN <<>>
                                 ELSE SubSeq(d, Len(ContentRoot) + 1, Len(d))
                      IN  /\ BaseUrl(d) = stripped \o <<PathInfo>> \o rel
                          /\ RewriteBase(B \o rel, B) = BaseUrl(d))
  /\ [][(/\ Rewrites
          /\ rw.n = 0
          /\ rw.response.content_type = "text/html; charset=utf-8"
          /\ proxy_base_url # None
          /\ UnderProxy(rw.uri, proxy_base_url))
           => \A i \in 1..Len(rw.response.body) :
                rw'.response.body[i] # rw.response.body[i]
                  => LET B == proxy_base_url
                         segs == rw'.response.body[i].segs
                     IN  /\ Len(segs) > Len(B)
                         /\ SubSeq(segs, 1, Len(B)) = B]_vars

\* C23 witness: the user is named myst-build; "url":"/p" in the page
\* /user/myst-build/myst-build/p has become
\* "url":"/user/myst-build/myst-build/p/p"
C23_Witness ==
  /\ rw.n = 1
  /\ proxy_base_url = <<"user", "myst-build", "myst-build">>
  /\ jupyter_base_url = <<"user", "myst-build">>
  /\ rw.uri = <<"user", "myst-build", "myst-build", "p">>
  /\ \E i \in 1..Len(rw.response.body) :
        rw.response.body[i] =
          Url(TRUE, <<"user", "myst-build", "myst-build", "p", "p">>, FALSE)

\* C24: a request with rebuild=1 whose resolved directory does not hold the
\* marker file deletes no output directory and changes no Build Record: it
\* goes to the directory browser; the rebuild branch is only ever entered,
\* and an output directory only ever deleted by the handler, for a directory
\* that holds the marker file and a request that carries rebuild=1.
C24_RebuildNeedsMarker ==
  /\ [](h.pc = "rebuild" => h.myst_dir \in marker /\ h.query = "rebuild=1")
  /\ [][ /\ (h.pc = "idle" /\ h'.pc # "idle" /\ h'.query = "rebuild=1"
               /\ h'.myst_dir \notin marker)
              => /\ h'.pc = "browser"
                 /\ UNCHANGED <<disk, build_status, rebuilds, workers>>
         /\ (h.pc = "browser" /\ h' # h)
              => UNCHANGED <<disk, build_status, rebuilds, workers>>
         /\ \A d \in DOMAIN disk :
              (h' # h /\ disk[d].out # "none" /\ disk'[d].out = "none")
                 => /\ h'.pc = "rebuild"
                    /\ h'.myst_dir = d
                    /\ d \in marker
       ]_vars

\* C24 witness: rebuild=1 for a directory without marker file whose output of
\* an earlier build is still on disk, while another root has a Build Record
C24_Witness ==
  /\ h.pc = "browser"
  /\ h.query = "rebuild=1"
  /\ h.myst_dir \notin marker
  /\ h.myst_dir \in DOMAIN disk
  /\ disk[h.myst_dir].out = "index"
  /\ DOMAIN build_status # {}

\* C25: a non-rebuild GET for a directory that holds the marker file starts a
\* build exactly when its status read returns neither "building" nor
\* "failed" and its test of _build/html/index.html finds the file absent:
\* "building" is answered with the progress page and "failed" with the 500
\* page, neither starting a worker; otherwise an absent index.html leads to
\* one new worker, status "building" and the progress page (also when the
\* record says "success"), and an existing index.html is served without a new
\* worker (also when there is no record); nothing else starts a worker.
C25_BuildStartsWhenNeeded ==
  /\ [](h.pc \in {"status", "error", "needs", "set", "serve"}
          => h.myst_dir \in marker /\ h.query # "rebuild=1")
  /\ [][\A d \in ProjDirs :
          /\ (h.pc = "status" /\ h.myst_dir = d /\ h' # h)
               => /\ workers' = workers
                  /\ Status(d) = "building"
                        => h'.pc = "idle" /\ resp'.code = 200 /\ resp'.kind = "progress"
                  /\ Status(d) = "failed" => h'.pc = "error"
                  /\ Status(d) \notin {"building", "failed"} => h'.pc = "needs"
          /\ (h.pc = "error" /\ h.myst_dir = d /\ h' # h)
               => workers' = workers /\ h'.pc = "idle" /\ resp'.code = 500
          /\ (h.pc = "needs" /\ h.myst_dir = d /\ h' # h)
               => /\ workers' = workers
                  /\ h'.pc = IF d \in DOMAIN disk /\ disk[d].out \in {"index", "nobody"}
                             THEN "serve" ELSE "set"
          /\ (h.pc = "set" /\ h.myst_dir = d /\ h' # h)
               => /\ Len(workers') = Len(workers) + 1
                  /\ workers'[Len(workers')].root = d
                  /\ workers'[Len(workers')].pc = "start"
                  /\ Status(d)' = "building"
                  /\ h'.pc = "idle"
                  /\ resp'.code = 200
                  /\ resp'.kind = "progress"
          /\ (h.pc = "serve" /\ h.myst_dir = d /\ h' # h)
               => /\ workers' = workers
                  /\ build_status' = build_status
                  /\ h'.pc = "idle"
                  /\ resp'.kind \notin {"progress", "failed"}
          /\ Len(workers') # Len(workers) => (h.pc = "set" /\ h' # h)
       ]_vars

\* C25 witness: the first build ended in "success" without leaving an
\* index.html, no rebuild was requested, and the next request has started a
\* second build and got the progress page
C25_Witness ==
  /\ resp.kind = "progress"
  /\ resp.root \in marker
  /\ rebuilds[resp.root] = 0
  /\ Cardinality(Launched(resp.root)) = 2
  /\ workers[1].pc = "done"
  /\ workers[2].pc = "start"
  /\ ~IndexExists(resp.root)

\* C26: when the subprocess cannot be launched, or another exception is
\* raised in the build worker (while it reads the output, or in _postbuild),
\* the worker does not hold the lock, its handler step can run as soon as the
\* lock is free, and that step makes the record "failed" with the exception
\* message as error text, releases the lock and leaves the request handler
\* as it was; a record is "building" only while a worker of its root is in
\* flight.
C26_ExceptionsFail ==
  /\ [](\A d \in ProjDirs : Status(d) = "building" => InFlight(d) # {})
  /\ [](\A w \in 1..Len(workers) :
          workers[w].pc \in {"except", "done"}
            => /\ build_lock # w
               /\ (workers[w].pc = "except" /\ build_lock = 0) => ENABLED BuildExcept(w))
  /\ [][\A w \in 1..Len(workers), d \in ProjDirs :
          (workers[w].root = d /\ workers[w].pc = "except" /\ workers'[w] # workers[w])
            => /\ workers'[w].pc = "done"
               /\ Status(d)' = "failed"
               /\ build_status'[d].error = ExcText
               /\ build_lock' = 0
               /\ h' = h
               /\ resp' = resp]_vars

\* C26 witness: an exception was raised in the worker after the builder had
\* written its output; the record is "failed" with the exception message,
\* the lock is free and a request has been answered 500 with that message
C26_Witness ==
  /\ postbuild_env
  /\ build_lock = 0
  /\ \E w \in 1..Len(workers) :
        /\ workers[w].pc = "done"
        /\ workers[w].root \in DOMAIN build_status
        /\ build_status[workers[w].root] = [status |-> "failed", error |-> ExcText, by |-> w]
        /\ IndexExists(workers[w].root)
        /\ ~Out(workers[w].root).injected
  /\ resp.code = 500
  /\ resp.body = ExcText

\* C27: every 500 "build failed" response carries the error text of a failed
\* build, never the placeholder "Unknown error".
C27_ErrorTextPresent ==
  resp.code = 500 => resp.body # UnknownError

\* C28: while a record is "building" and the build it refers to is running,
\* its last-output field is the last non-empty line that build has emitted
\* (the initial value when it has emitted none): it never holds a line of
\* another build.
C28_LastOutputOfThisBuild ==
  \A d \in DOMAIN build_status :
    (build_status[d].status = "building"
       /\ workers[build_status[d].by].pc \in {"start", "run"})
      => build_status[d].last_output = Len(workers[build_status[d].by].output_lines)

\* C29: when no prefix of the request path's segments names a directory that
\* holds the marker file, _parse_path returns the canonical form of the
\* content root joined with all the segments as project root and "/" as
\* in-project path; for a request path without segments it returns the
\* content root and "/".
C29_NoMarkerFullPath ==
  parsed.done =>
    LET parts == Unquote(parsed.raw)
        unmarked == \A i \in 1..Len(parts) :
                      Abspath(ContentRoot \o SubSeq(parts, 1, i)) \notin marker
    IN  /\ parts = <<>>
             => /\ parsed.myst_dir = ContentRoot
                /\ parsed.segs = <<>>
                /\ ~parsed.file_slash
        /\ (parts # <<>> /\ unmarked)
             => /\ parsed.myst_dir = Abspath(ContentRoot \o parts)
                /\ parsed.segs = <<>>
                /\ ~parsed.file_slash

\* C29 witness: /p/%2e%2e/q/ with marker files elsewhere resolves to the
\* directory q of the content root and the in-project path "/"
C29_Witness ==
  /\ parsed.done
  /\ parsed.raw = <<"p", "%2e%2e", "q">>
  /\ parsed.slash
  /\ <<"home", "p", "q">> \in marker
  /\ marker \cap {<<"home", "p">>, ContentRoot, <<"home", "q">>} = {}
  /\ parsed.myst_dir = <<"home", "q">>
  /\ parsed.segs = <<>>

\* C30: the base URL computed for a project root R, and handed to the
\* builder, is the Jupyter prefix, then "/myst-build", then "/" and the path
\* of R relative to the content root, with nothing after "/myst-build" when
\* R is the content root; the in-project path of the request has no part in
\* it.
C30_BuilderBaseUrl ==
  (parsed.done /\ parsed.myst_dir \in marker) =>
    LET R == parsed.myst_dir
        rel == IF R = ContentRoot THEN <<>>
               ELSE IF InsideContentRoot(R) THEN SubSeq(R, Len(ContentRoot) + 1, Len(R))
               ELSE RelPath(R)
    IN  parsed.base_url = jupyter_base_url \o <<"myst-build">> \o rel

\* C30 witness: a local server; the request /p/q/p names a page two levels
\* down in the project p, and the base URL is /myst-build/p
C30_Witness ==
  /\ parsed.done
  /\ jupyter_base_url = <<>>
  /\ parsed.raw = <<"p", "q", "p">>
  /\ parsed.myst_dir = <<"home", "p">>
  /\ parsed.myst_dir \in marker
  /\ parsed.segs = <<"q", "p">>
  /\ parsed.base_url = <<"myst-build", "p">>

\* C31: whenever a request has reached the static-serving step for a project
\* root, no build worker of that root is in flight.
C31_ServeWithoutBuild ==
  h.pc = "serve" => InFlight(h.myst_dir) = {}

\* C32: under fair scheduling of the worker threads, with every build
\* subprocess terminating, a record that is "building" eventually is not
\* "building" any more; a record is "building" only while a worker of its
\* root, started in the step that wrote "building" or earlier, has its
\* terminal status write still ahead.
C32_BuildingEnds ==
  /\ [](\A d \in ProjDirs :
          Status(d) = "building"
            => \E w \in InFlight(d) : workers[w].pc \in {"start", "run", "exited", "postbuild", "except"})
  /\ \A d \in ProjDirs : (Status(d) = "building") ~> (Status(d) # "building")

\* C32 witness: after a rebuild during a build, both builds of the root have
\* ended and the record is no longer "building"
C32_Witness ==
  \E d \in marker :
    /\ rebuilds[d] = 1
    /\ Cardinality(Launched(d)) = 2
    /\ InFlight(d) = {}
    /\ workers[2].epoch = 1
    /\ Status(d) \in {"success", "failed"}

\* C33: a worker consuming an output line never creates a Build Record: when
\* the record of its root is absent, it is absent afterwards; a record comes
\* into being only in the step of a request that writes "building" and in a
\* worker's terminal status write.
C33_LineCreatesNoRecord ==
  [][\A d \in ProjDirs :
       /\ \A w \in 1..Len(workers) :
            (/\ workers[w].root = d
             /\ workers[w].pc = "run"
             /\ workers'[w].pc = "run"
             /\ Len(workers'[w].output_lines) > Len(workers[w].output_lines)
             /\ d \notin DOMAIN build_status)
              => d \notin DOMAIN build_status'
       /\ (d \notin DOMAIN build_status /\ d \in DOMAIN build_status')
            => \/ /\ h.pc = "set"
                  /\ h.myst_dir = d
                  /\ h' # h
                  /\ build_status'[d].status = "building"
               \/ \E w \in 1..Len(workers) :
                     /\ workers[w].root = d
                     /\ workers[w].pc \in {"exited", "postbuild", "except"}
                     /\ workers'[w].pc = "done"
                     /\ build_status'[d].status \in {"success", "failed"}
    ]_vars

\* C33 witness: a rebuild has reset the record while the build runs; the
\* worker has consumed its output lines and the record is absent
C33_Witness ==
  \E w \in 1..Len(workers) :
    /\ workers[w].pc = "run"
    /\ Len(workers[w].output_lines) = 2
    /\ rebuilds[workers[w].root] = 1
    /\ workers[w].epoch = 0
    /\ workers[w].root \notin DOMAIN build_status
====
